---------------------------- MODULE Spec2Model ----------------------------
(***************************************************************************)
(* A model of the Matter web-control bridge (src/cli/server.py): the       *)
(* MatterBridgeServer object, its start-up and shutdown, the rebuild of    *)
(* the device snapshot on every attribute-update event (_update_cache),    *)
(* the occupancy history and callback dispatch, the alias registry and     *)
(* the HTTP handlers that read the stores or send commands to the mesh.    *)
(*                                                                         *)
(* Python strings the code inspects (identifiers, names) are sequences of  *)
(* one-character strings, so that startswith/replace/split/int are         *)
(* computed as the code computes them.  Attribute values are tagged        *)
(* records, so that None, booleans and integers stay distinct.             *)
(***************************************************************************)
EXTENDS Integers, Sequences, FiniteSets, TLC

VARIABLES
    phase,               \* position of the application: constructed, started,
                         \* connecting, serving, stopped
    attempt,             \* loop counter of establish_connection (0 outside it)
    process,             \* self.process
    session,             \* self.session
    client,              \* self.client: none, disconnected, connected
    listen_task,         \* self.listen_task
    subscribed,          \* _on_event is subscribed to ATTRIBUTE_UPDATED
    cached_devices,      \* self.cached_devices (list of device dicts)
    occupancy_history,   \* self.occupancy_history (device id -> epoch)
    device_names,        \* self.device_names (device id -> list of names)
    occupancy_callbacks, \* self.occupancy_callbacks (device id -> script)
    mesh,                \* the node tree held by the mesh client
    scripts,             \* script files that exist on disk
    now,                 \* int(time.time())
    files,               \* the four persisted JSON documents
    frames,              \* activations of _update_cache in progress
    effects,             \* side effects of the last handler, in code order
    response             \* what the last handler returned

vars == << phase, attempt, process, session, client, listen_task, subscribed,
           cached_devices, occupancy_history, device_names,
           occupancy_callbacks, mesh, scripts, now, files, frames, effects,
           response >>

-----------------------------------------------------------------------------
(* Bounds of the model *)

\* the clock runs over 1..MaxTime
MaxTime == 2

\* raw occupancy readings range over 0..MaxOcc (and None)
MaxOcc == 2

\* the stack of activations of _update_cache is explored up to this depth
MaxFrames == 2

\* range(15) in establish_connection
MaxAttempts == 15

-----------------------------------------------------------------------------
(* Strings *)

DigitChars == << "0", "1", "2", "3", "4", "5", "6", "7", "8", "9" >>

RECURSIVE Str(_)
\* str(n) of a non-negative integer
Str(n) == IF n < 10 THEN << DigitChars[n + 1] >>
          ELSE Str(n \div 10) \o << DigitChars[(n % 10) + 1] >>

DevPrefix == << "d", "e", "v", "_" >>

StartsWith(s, p) == Len(s) >= Len(p) /\ SubSeq(s, 1, Len(p)) = p

RECURSIVE RemoveAll(_, _)
\* s.replace(p, "")
RemoveAll(s, p) ==
    IF Len(s) < Len(p) THEN s
    ELSE IF SubSeq(s, 1, Len(p)) = p
         THEN RemoveAll(SubSeq(s, Len(p) + 1, Len(s)), p)
         ELSE << Head(s) >> \o RemoveAll(Tail(s), p)

RECURSIVE Split(_, _)
\* s.split(c) for a one-character separator
Split(s, c) ==
    LET at == {i \in 1..Len(s) : s[i] = c}
    IN  IF at = {} THEN << s >>
        ELSE LET i == CHOOSE x \in at : \A y \in at : x <= y
             IN  << SubSeq(s, 1, i - 1) >> \o Split(SubSeq(s, i + 1, Len(s)), c)

\* s.isdigit(), and the strings of the model that int(s) accepts
IsDigits(s) ==
    Len(s) > 0 /\ \A i \in 1..Len(s) : \E d \in 1..10 : DigitChars[d] = s[i]

DigitValue(c) == (CHOOSE d \in 1..10 : DigitChars[d] = c) - 1

RECURSIVE IntOf(_)
\* int(s) of a string of digits
IntOf(s) ==
    IF Len(s) = 1 THEN DigitValue(s[1])
    ELSE 10 * IntOf(SubSeq(s, 1, Len(s) - 1)) + DigitValue(s[Len(s)])

\* f"dev_{node.node_id}_{endpoint_id}"
DeviceId(node_id, endpoint_id) ==
    DevPrefix \o Str(node_id) \o << "_" >> \o Str(endpoint_id)

-----------------------------------------------------------------------------
(* Values *)

None == [t |-> "none", v |-> 0]
IntV(n) == [t |-> "int", v |-> n]
BoolV(b) == [t |-> "bool", v |-> IF b THEN 1 ELSE 0]

\* the empty dict
EmptyMap == << >>

Put(map, k, v) == (k :> v) @@ map

Get(map, k, default) == IF k \in DOMAIN map THEN map[k] ELSE default

-----------------------------------------------------------------------------
(* The mesh client's node tree *)

\* An endpoint is [clusters |-> set of cluster ids,
\*                 attrs |-> (<<cluster id, attribute id>> -> value)].
\* mesh maps <<node_id, endpoint_id>> to the endpoint; it stands for
\* client.get_nodes() and node.endpoints.

\* node.get_attribute_value(endpoint_id, cluster_id, attr_id)
GetAttributeValue(ep, cluster_id, attr_id) ==
    Get(ep.attrs, << cluster_id, attr_id >>, None)

KeyLess(a, b) == a[1] < b[1] \/ (a[1] = b[1] /\ a[2] < b[2])

RECURSIVE SortKeys(_)
SortKeys(S) ==
    IF S = {} THEN << >>
    ELSE LET m == CHOOSE x \in S : \A y \in S \ {x} : KeyLess(x, y)
         IN  << m >> \o SortKeys(S \ {m})

\* The (node, endpoint) pairs in the order the two nested loops visit them;
\* the dicts' insertion order is taken to be ascending.
EndpointList(m) ==
    LET keys == SortKeys(DOMAIN m)
    IN  [i \in 1..Len(keys) |-> [key |-> keys[i], ep |-> m[keys[i]]]]

SENSOR_CLUSTERS ==
    << [cluster_id |-> 1024, name |-> "illuminance", attr_id |-> 0, scale |-> 1],
       [cluster_id |-> 1026, name |-> "temperature", attr_id |-> 0, scale |-> 100],
       [cluster_id |-> 1027, name |-> "pressure", attr_id |-> 0, scale |-> 10],
       [cluster_id |-> 1029, name |-> "humidity", attr_id |-> 0, scale |-> 100],
       [cluster_id |-> 1030, name |-> "occupancy", attr_id |-> 0, scale |-> 1],
       [cluster_id |-> 69, name |-> "contact", attr_id |-> 0, scale |-> 1] >>

-----------------------------------------------------------------------------
(* _update_cache *)

\* the three lighting keys set without looking at endpoint.clusters
LightingStatesAnyCluster(ep) ==
    LET raw_val == GetAttributeValue(ep, 6, 0)
    IN  Put(Put(Put(EmptyMap, "on_off",
                    IF raw_val # None THEN BoolV(raw_val.v # 0) ELSE None),
                "brightness_raw", GetAttributeValue(ep, 8, 0)),
            "color_temp_mireds", GetAttributeValue(ep, 768, 7))

\* states["on_off"], states["brightness_raw"], states["color_temp_mireds"]
LightingStates(ep) ==
    LET raw_val == GetAttributeValue(ep, 6, 0)
        s1 == IF 6 \in ep.clusters
              THEN Put(EmptyMap, "on_off",
                       IF raw_val # None THEN BoolV(raw_val.v # 0) ELSE None)
              ELSE EmptyMap
        s2 == IF 8 \in ep.clusters
              THEN Put(s1, "brightness_raw", GetAttributeValue(ep, 8, 0))
              ELSE s1
    IN  IF 768 \in ep.clusters
        THEN Put(s2, "color_temp_mireds", GetAttributeValue(ep, 768, 7))
        ELSE s2

RECURSIVE SensorStatesKeepNone(_, _, _)
\* the sensor loop without the test for a missing value
SensorStatesKeepNone(ep, states, i) ==
    IF i > Len(SENSOR_CLUSTERS) THEN states
    ELSE LET row == SENSOR_CLUSTERS[i]
             val == GetAttributeValue(ep, row.cluster_id, row.attr_id)
         IN  SensorStatesKeepNone(ep,
                 IF row.cluster_id \in ep.clusters
                 THEN Put(states, row.name, IF val # None THEN IntV(val.v) ELSE None)
                 ELSE states,
                 i + 1)

RECURSIVE SensorStates(_, _, _)
\* the loop over SENSOR_CLUSTERS, from row i on
SensorStates(ep, states, i) ==
    IF i > Len(SENSOR_CLUSTERS) THEN states
    ELSE LET row == SENSOR_CLUSTERS[i]
             val == GetAttributeValue(ep, row.cluster_id, row.attr_id)
         IN  SensorStates(ep,
                 IF row.cluster_id \in ep.clusters /\ val # None
                 THEN Put(states, row.name, IntV(val.v))
                 ELSE states,
                 i + 1)

\* the states dict of one endpoint
ExtractStates(ep) == SensorStates(ep, LightingStates(ep), 1)

FileNames == {"devices", "occupancy", "names", "callbacks"}

NoFile == [exists |-> FALSE, valid |-> FALSE, doc |-> << >>]

Effect(e, a) == [e |-> e, a |-> a]

\* a lookup that takes a device the snapshot does not hold for occupied
PrevOccupancyNewIsSet(cached, device_id) ==
    LET hits == {i \in 1..Len(cached) : cached[i].id = device_id}
    IN  IF hits = {} THEN IntV(1)
        ELSE LET first == CHOOSE i \in hits : \A j \in hits : i <= j
             IN  Get(cached[first].states, "occupancy", IntV(0))

\* a lookup that takes the first cached device whatever its id
PrevOccupancyFirst(cached, device_id) ==
    IF cached = << >> THEN IntV(0)
    ELSE Get(cached[1].states, "occupancy", IntV(0))

\* prev_device = next((d for d in self.cached_devices if d["id"] == device_id), None)
\* prev_occupancy = prev_device.get("states", {}).get("occupancy", 0) if prev_device else 0
PrevOccupancy(cached, device_id) ==
    LET hits == {i \in 1..Len(cached) : cached[i].id = device_id}
    IN  IF hits = {} THEN IntV(0)
        ELSE LET first == CHOOSE i \in hits : \A j \in hits : i <= j
             IN  Get(cached[first].states, "occupancy", IntV(0))

\* a level trigger: the previous value is not looked at
PrevIsClearAlways(prev_occupancy) == TRUE

\* if prev_occupancy == 0
PrevIsClear(prev_occupancy) ==
    prev_occupancy.t \in {"int", "bool"} /\ prev_occupancy.v = 0

\* sensor_name == "occupancy" and int(val) == 1, and the previous value is 0
RisingEdge(states, cached, device_id) ==
    /\ "occupancy" \in DOMAIN states
    /\ states["occupancy"].v = 1
    /\ PrevIsClear(PrevOccupancy(cached, device_id))

\* One pass of the loop body for one endpoint.  r is the activation of
\* _update_cache together with the stores it writes.
VisitEndpoint(r, item, callbacks, t) ==
    LET device_id == DeviceId(item.key[1], item.key[2])
        states == ExtractStates(item.ep)
        edge == RisingEdge(states, r.cached_devices, device_id)
    IN  [r EXCEPT
           !.devices = Append(@, [id |-> device_id,
                                  node_id |-> item.key[1],
                                  endpoint_id |-> item.key[2],
                                  states |-> states]),
           !.occupancy_history = IF edge THEN Put(@, device_id, t) ELSE @,
           !.effects = IF edge THEN Append(@, Effect("stamp", device_id)) ELSE @,
           !.occupancy_updated = @ \/ edge,
           !.triggered_callbacks =
               IF edge /\ device_id \in DOMAIN callbacks
               THEN Append(@, callbacks[device_id]) ELSE @]

\* A write fails in one of two ways, both named in wfail: open() raises
\* and the file is as it was (the name of the store), or json.dump raises
\* after open() has truncated the file, which is left without a document
\* that json.load accepts (Torn of the name).
Torn(name) ==
    CASE name = "devices" -> "devices/torn"
      [] name = "occupancy" -> "occupancy/torn"
      [] name = "names" -> "names/torn"
      [] name = "callbacks" -> "callbacks/torn"

Fails(name, wfail) == name \in wfail \/ Torn(name) \in wfail

\* open(name, "w") and json.dump(doc) inside try/except: a failure is logged
WriteFile(fls, name, doc, wfail) ==
    IF name \in wfail THEN fls
    ELSE IF Torn(name) \in wfail
    THEN [fls EXCEPT ![name] = [exists |-> TRUE, valid |-> FALSE, doc |-> << >>]]
    ELSE [fls EXCEPT ![name] = [exists |-> TRUE, valid |-> TRUE, doc |-> doc]]

WriteEffect(name, wfail) ==
    IF Fails(name, wfail) THEN Effect("log_error", name)
    ELSE Effect("write", name)

\* a write whose failure leaves _update_cache at once
PcAfterWriteRaising(name, wfail, next_pc) ==
    IF Fails(name, wfail) THEN "done" ELSE next_pc

\* the statement _update_cache goes on with after a write: the except
\* clause logs the failure and the function continues
PcAfterWrite(name, wfail, next_pc) == next_pc

\* a dispatch that does not look for the script
DispatchUnchecked(script_path, scr) == Effect("spawn", script_path)

\* if os.path.exists(script_path): subprocess.Popen(...) else: logging.error
Dispatch(script_path, scr) ==
    IF script_path \in scr THEN Effect("spawn", script_path)
    ELSE Effect("log_error", script_path)

\* a dispatch loop that a missing script ends: the error is logged and the
\* callbacks still queued are dropped
DispatchNextAbort(r, scr) ==
    LET script_path == Head(r.triggered_callbacks)
    IN  [r EXCEPT
           !.triggered_callbacks = IF script_path \in scr THEN Tail(@) ELSE << >>,
           !.effects = Append(@, Dispatch(script_path, scr))]

\* one pass of "for script_path in triggered_callbacks"
DispatchNext(r, scr) ==
    LET script_path == Head(r.triggered_callbacks)
    IN  [r EXCEPT
           !.triggered_callbacks = Tail(@),
           !.effects = Append(@, Dispatch(script_path, scr))]

\* an activation that does not test the client
RebuildStartUnguarded(cl, m, cached, history, fls) ==
    [pc |-> IF DOMAIN m = {} THEN "commit" ELSE "enumerate",
     todo |-> EndpointList(m),
     devices |-> << >>,
     occupancy_updated |-> FALSE,
     triggered_callbacks |-> << >>,
     cached_devices |-> cached,
     occupancy_history |-> history,
     files |-> fls,
     effects |-> << >>]

\* The activation at the entry of _update_cache.
RebuildStart(cl, m, cached, history, fls) ==
    [pc |-> IF cl = "none" THEN "done"
            ELSE IF DOMAIN m = {} THEN "commit" ELSE "enumerate",
     todo |-> IF cl = "none" THEN << >> ELSE EndpointList(m),
     devices |-> << >>,
     occupancy_updated |-> FALSE,
     triggered_callbacks |-> << >>,
     cached_devices |-> cached,
     occupancy_history |-> history,
     files |-> fls,
     effects |-> << >>]

\* One step of _update_cache.
RebuildStep(r, callbacks, scr, t, wfail) ==
    CASE r.pc = "enumerate" ->
           LET v == VisitEndpoint(r, Head(r.todo), callbacks, t)
           IN  [v EXCEPT !.todo = Tail(@),
                         !.pc = IF Len(r.todo) = 1 THEN "commit" ELSE "enumerate"]
      [] r.pc = "commit" ->
           [r EXCEPT !.cached_devices = r.devices,
                     !.effects = Append(@, Effect("commit", "cached_devices")),
                     !.pc = "persist"]
      [] r.pc = "persist" ->
           [r EXCEPT !.files = WriteFile(@, "devices", r.devices, wfail),
                     !.effects = Append(@, WriteEffect("devices", wfail)),
                     !.pc = PcAfterWrite("devices", wfail,
                                         IF r.occupancy_updated
                                         THEN "persist_history" ELSE "dispatch")]
      [] r.pc = "persist_history" ->
           [r EXCEPT !.files = WriteFile(@, "occupancy", r.occupancy_history, wfail),
                     !.effects = Append(@, WriteEffect("occupancy", wfail)),
                     !.pc = PcAfterWrite("occupancy", wfail, "dispatch")]
      [] r.pc = "dispatch" ->
           IF r.triggered_callbacks = << >> THEN [r EXCEPT !.pc = "done"]
           ELSE DispatchNext(r, scr)
      [] OTHER -> r

RECURSIVE RunRebuild(_, _, _, _, _)
\* _update_cache run to its end: it has no suspension point
RunRebuild(r, callbacks, scr, t, wfail) ==
    IF r.pc = "done" THEN r
    ELSE RunRebuild(RebuildStep(r, callbacks, scr, t, wfail),
                    callbacks, scr, t, wfail)

\* self._update_cache()
UpdateCache(cl, wfail) ==
    RunRebuild(RebuildStart(cl, mesh, cached_devices, occupancy_history, files),
               occupancy_callbacks, scripts, now, wfail)

-----------------------------------------------------------------------------
(* The alias registry and resolve_id *)

\* self.device_names is a dict that the code iterates: it is a sequence of
\* [id, names] entries in insertion order, names a list.

InList(x, list) == \E i \in 1..Len(list) : list[i] = x

NamesIndex(names, dev_id) == {i \in 1..Len(names) : names[i].id = dev_id}

\* self.device_names.get(dev_id, [])
NamesOf(names, dev_id) ==
    IF NamesIndex(names, dev_id) = {} THEN << >>
    ELSE names[CHOOSE i \in NamesIndex(names, dev_id) : TRUE].names

\* resolve_id, for a non-empty identifier
ResolveId(names, identifier) ==
    IF StartsWith(identifier, DevPrefix) THEN identifier
    ELSE LET hits == {i \in 1..Len(names) : InList(identifier, names[i].names)}
         IN  IF hits = {} THEN identifier
             ELSE names[CHOOSE i \in hits : \A j \in hits : i <= j].id

-----------------------------------------------------------------------------
(* Construction *)

NoResponse == [op |-> "none", status |-> 0, body |-> ""]

\* MatterBridgeServer.__init__ on a machine without cache files: every load
\* finds no file and leaves the store empty.
Init ==
    /\ phase = "constructed"
    /\ attempt = 0
    /\ process = "none"
    /\ session = "none"
    /\ client = "none"
    /\ listen_task = "none"
    /\ subscribed = FALSE
    /\ cached_devices = << >>
    /\ occupancy_history = EmptyMap
    /\ device_names = << >>
    /\ occupancy_callbacks = EmptyMap
    /\ mesh = EmptyMap
    /\ scripts = {}
    /\ now = 1
    /\ files = [n \in FileNames |-> NoFile]
    /\ frames = << >>
    /\ effects = << >>
    /\ response = NoResponse

\* a step that is no handler of the bridge returns and logs nothing:
\* effects and response describe the step just taken
Quiet == effects' = << >> /\ response' = NoResponse

\* a loop that would start a callback while another one runs
LoopIdleAlways == TRUE

\* Handlers, _on_event and the listen task of the mesh client are callbacks
\* of one event loop, and _on_event and _update_cache are plain functions
\* without a suspension point: a callback starts only when no activation of
\* _update_cache is on the stack.
LoopIdle == frames = << >>

stores == << cached_devices, occupancy_history, device_names,
             occupancy_callbacks, files >>

handles == << process, session, client, listen_task, subscribed >>

environment == << mesh, scripts, now >>

-----------------------------------------------------------------------------
(* Start-up: initialize, start_process, establish_connection *)

\* start_process: the Matter server subprocess is spawned
StartProcess ==
    /\ phase = "constructed"
    /\ process' = "running"
    /\ phase' = "started"
    /\ Quiet
    /\ UNCHANGED << attempt, session, client, listen_task, subscribed, stores,
                    environment, frames >>

\* establish_connection up to the loop: the session and the client exist
\* from here on, connected or not
BeginConnect ==
    /\ phase = "started"
    /\ session' = "open"
    /\ client' = "disconnected"
    /\ attempt' = 0
    /\ phase' = "connecting"
    /\ Quiet
    /\ UNCHANGED << process, listen_task, subscribed, stores, environment,
                    frames >>

\* client.connect() raises: sleep and try again
ConnectFail ==
    /\ phase = "connecting"
    /\ attempt < MaxAttempts
    /\ attempt' = attempt + 1
    /\ Quiet
    /\ UNCHANGED << phase, handles, stores, environment, frames >>

\* client.connect() returns; initialize goes on without a suspension point:
\* it starts the listen task, subscribes _on_event and rebuilds the cache
ConnectOk(wfail) ==
    /\ phase = "connecting"
    /\ attempt < MaxAttempts
    /\ client' = "connected"
    /\ listen_task' = "running"
    /\ subscribed' = TRUE
    /\ phase' = "serving"
    /\ attempt' = 0
    /\ response' = NoResponse
    /\ UNCHANGED << process, session, device_names, occupancy_callbacks,
                    environment, frames >>
    /\ LET r == UpdateCache("connected", wfail)
       IN  /\ cached_devices' = r.cached_devices
           /\ occupancy_history' = r.occupancy_history
           /\ files' = r.files
           /\ effects' = r.effects

\* the loop of establish_connection ends: initialize logs the failure and
\* the application serves without a connection
ConnectGiveUp ==
    /\ phase = "connecting"
    /\ attempt = MaxAttempts
    /\ phase' = "serving"
    /\ effects' = << Effect("log_error", "connection") >>
    /\ attempt' = 0
    /\ response' = NoResponse
    /\ UNCHANGED << handles, stores, environment, frames >>

-----------------------------------------------------------------------------
(* The mesh and the rest of the environment *)

NodeIds == {1, 2}

\* the (node_id, endpoint_id) pairs of the model
DevKeys == {<< n, 1 >> : n \in NodeIds}

DeviceIds == {DeviceId(k[1], k[2]) : k \in DevKeys}

\* raw readings of the occupancy attribute: no value, clear, occupied, and
\* further bitmap values
OccValues == {None} \cup {IntV(n) : n \in 0..MaxOcc}

\* an endpoint with the occupancy-sensing cluster only
OccEndpoint(v) == [clusters |-> {1030}, attrs |-> (<< 1030, 0 >> :> v)]

\* The mesh is what client.get_nodes() returns; the client changes it from
\* its listen task, a callback of the same loop.

\* a node is commissioned or comes online
NodeAdded(k, ep) ==
    /\ LoopIdle
    /\ k \notin DOMAIN mesh
    /\ mesh' = Put(mesh, k, ep)
    /\ Quiet
    /\ UNCHANGED << phase, attempt, handles, stores, scripts, now, frames >>

\* a node is removed from the fabric
NodeRemoved(k) ==
    /\ LoopIdle
    /\ k \in DOMAIN mesh
    /\ mesh' = [x \in DOMAIN mesh \ {k} |-> mesh[x]]
    /\ Quiet
    /\ UNCHANGED << phase, attempt, handles, stores, scripts, now, frames >>

\* the mesh client stores a new value of an attribute
AttributeChanged(k, path, v) ==
    /\ LoopIdle
    /\ k \in DOMAIN mesh
    /\ path \in DOMAIN mesh[k].attrs
    /\ mesh[k].attrs[path] # v
    /\ mesh' = [mesh EXCEPT ![k].attrs[path] = v]
    /\ Quiet
    /\ UNCHANGED << phase, attempt, handles, stores, scripts, now, frames >>

\* a second passes
Tick ==
    /\ now < MaxTime
    /\ now' = now + 1
    /\ Quiet
    /\ UNCHANGED << phase, attempt, handles, stores, mesh, scripts, frames >>

-----------------------------------------------------------------------------
(* _on_event *)

\* the listen task delivers events to the subscriber while it runs
Listening ==
    /\ subscribed
    /\ listen_task = "running"

\* _on_event: an ATTRIBUTE_UPDATED event calls _update_cache
OnEvent(wfail) ==
    /\ Listening
    /\ LoopIdle
    /\ response' = NoResponse
    /\ UNCHANGED << phase, attempt, handles, device_names,
                    occupancy_callbacks, environment, frames >>
    /\ LET r == UpdateCache(client, wfail)
       IN  /\ cached_devices' = r.cached_devices
           /\ occupancy_history' = r.occupancy_history
           /\ files' = r.files
           /\ effects' = r.effects

-----------------------------------------------------------------------------
(* The bridge with occupancy sensors: start-up, the mesh, events *)

Startup ==
    \/ StartProcess
    \/ BeginConnect
    \/ ConnectFail
    \/ ConnectOk({})
    \/ ConnectGiveUp

OccMesh ==
    \/ \E k \in DevKeys : NodeAdded(k, OccEndpoint(None))
    \/ \E k \in DevKeys : NodeRemoved(k)
    \/ \E k \in DevKeys, v \in OccValues : AttributeChanged(k, << 1030, 0 >>, v)

Next ==
    \/ Startup
    \/ OccMesh
    \/ Tick
    \/ OnEvent({})

Spec == Init /\ [][Next]_vars

-----------------------------------------------------------------------------
(* The bridge with binary occupancy sensors: start-up, sensors that come and
   go and read no value, 0 or 1, the clock, events *)

BinaryReadings == {None, IntV(0), IntV(1)}

BinarySensors ==
    \/ \E k \in DevKeys, v \in BinaryReadings : NodeAdded(k, OccEndpoint(v))
    \/ \E k \in DevKeys : NodeRemoved(k)
    \/ \E k \in DevKeys, v \in BinaryReadings :
          AttributeChanged(k, << 1030, 0 >>, v)

NextBinary ==
    \/ Startup
    \/ BinarySensors
    \/ Tick
    \/ OnEvent({})

SpecBinary == Init /\ [][NextBinary]_vars

-----------------------------------------------------------------------------
(* serve_callback_api and the script files *)

ScriptPaths == {"a.sh", "b.sh"}

\* a script file is created
ScriptCreated(path) ==
    /\ path \notin scripts
    /\ scripts' = scripts \cup {path}
    /\ Quiet
    /\ UNCHANGED << phase, attempt, handles, stores, mesh, now, frames >>

\* a script file is deleted
ScriptDeleted(path) ==
    /\ path \in scripts
    /\ scripts' = scripts \ {path}
    /\ Quiet
    /\ UNCHANGED << phase, attempt, handles, stores, mesh, now, frames >>

\* a registry that keeps the script a device already has
RegisterFirstWins(callbacks, resolved_id, script_path) ==
    IF resolved_id \in DOMAIN callbacks THEN callbacks
    ELSE Put(callbacks, resolved_id, script_path)

\* bridge.occupancy_callbacks[resolved_id] = script_path
Register(callbacks, resolved_id, script_path) ==
    Put(callbacks, resolved_id, script_path)

\* GET /api/callback?id=..&script=..; an absent parameter is the empty string
ServeCallback(device_id, script_path, wfail) ==
    /\ phase = "serving"
    /\ LoopIdle
    /\ UNCHANGED << phase, attempt, handles, cached_devices, occupancy_history,
                    device_names, environment, frames >>
    /\ IF device_id = << >> \/ script_path = ""
       THEN /\ response' = [op |-> "callback", status |-> 400,
                            body |-> "Missing id or script_path parameter"]
            /\ effects' = << >>
            /\ UNCHANGED << occupancy_callbacks, files >>
       ELSE IF script_path \notin scripts
       THEN /\ response' = [op |-> "callback", status |-> 400,
                            body |-> "Specified script file does not exist"]
            /\ effects' = << >>
            /\ UNCHANGED << occupancy_callbacks, files >>
       ELSE LET resolved_id == ResolveId(device_names, device_id)
                callbacks == Register(occupancy_callbacks, resolved_id, script_path)
            IN  /\ occupancy_callbacks' = callbacks
                /\ files' = WriteFile(files, "callbacks", callbacks, wfail)
                /\ effects' = << WriteEffect("callbacks", wfail) >>
                /\ response' = [op |-> "callback", status |-> 200,
                                body |-> [id |-> resolved_id,
                                          script |-> script_path]]

-----------------------------------------------------------------------------
(* The bridge with occupancy callbacks: start-up, binary occupancy sensors,
   script files, callback registration, events *)

BinaryMesh ==
    \/ \E k \in DevKeys : NodeAdded(k, OccEndpoint(IntV(0)))
    \/ \E k \in DevKeys : NodeRemoved(k)
    \/ \E k \in DevKeys, v \in {IntV(0), IntV(1)} :
          AttributeChanged(k, << 1030, 0 >>, v)

ScriptFiles ==
    \/ \E path \in ScriptPaths : ScriptCreated(path)
    \/ \E path \in ScriptPaths : ScriptDeleted(path)

NextDispatch ==
    \/ Startup
    \/ BinaryMesh
    \/ ScriptFiles
    \/ \E d \in DeviceIds \cup {<< >>}, path \in ScriptPaths \cup {""} :
          ServeCallback(d, path, {})
    \/ OnEvent({})

SpecDispatch == Init /\ [][NextDispatch]_vars

-----------------------------------------------------------------------------
(* The bridge with mixed endpoints: start-up, nodes that come and go with
   lights, sensors and endpoints without any known cluster, events *)

\* the endpoints 0 and 1 of node 1
MixedKeys == {<< 1, 0 >>, << 1, 1 >>}

MixedIds == {DeviceId(k[1], k[2]) : k \in MixedKeys}

\* a dimmable colour light; raw_on is None or a boolean, level and mireds
\* None or an integer
LightEndpoint(raw_on, level, mireds) ==
    [clusters |-> {6, 8, 768},
     attrs |-> (<< 6, 0 >> :> raw_on) @@ (<< 8, 0 >> :> level)
               @@ (<< 768, 7 >> :> mireds)]

\* a temperature and occupancy sensor
SensorEndpoint(temperature, occupancy) ==
    [clusters |-> {1026, 1030},
     attrs |-> (<< 1026, 0 >> :> temperature) @@ (<< 1030, 0 >> :> occupancy)]

\* an endpoint with none of the clusters the bridge looks for
BareEndpoint == [clusters |-> {}, attrs |-> EmptyMap]

MixedEndpoints ==
    { LightEndpoint(None, None, None),
      LightEndpoint(BoolV(TRUE), IntV(127), IntV(200)),
      LightEndpoint(BoolV(FALSE), IntV(127), None),
      SensorEndpoint(None, None),
      SensorEndpoint(IntV(2150), IntV(1)),
      BareEndpoint }

MixedMesh ==
    \/ \E k \in MixedKeys, ep \in MixedEndpoints : NodeAdded(k, ep)
    \/ \E k \in MixedKeys : NodeRemoved(k)

NextExtract ==
    \/ Startup
    \/ MixedMesh
    \/ OnEvent({})

SpecExtract == Init /\ [][NextExtract]_vars

-----------------------------------------------------------------------------
(* The command handlers: serve_set_api, serve_commission_api *)

\* A query parameter that holds a number is [k |-> "absent"], [k |-> "bad"]
\* (text that float() or int() rejects) or [k |-> "num", n |-> value]; a
\* brightness is given in hundredths.
AbsentParam == [k |-> "absent", n |-> 0]
BadParam == [k |-> "bad", n |-> 0]
Num(n) == [k |-> "num", n |-> n]

Max(a, b) == IF a >= b THEN a ELSE b
Min(a, b) == IF a <= b THEN a ELSE b

\* is_ready
IsReady == client # "none"

\* The call of client.send_command or client.send_device_command number
\* nth of a handler raises: always on a client that is not connected, and
\* when the mesh rejects the command (fail_at names that call).
SendRaises(nth, fail_at) == client # "connected" \/ fail_at = nth

\* brightness = max(0.0, min(1.0, float(brightness_str))), in hundredths
ClampBrightness(hundredths) == Max(0, Min(100, hundredths))

\* level = max(1, int(brightness * 254))
LevelOf(hundredths) == Max(1, (hundredths * 254) \div 100)

\* mireds = int(1000000 / temp_kelvin)
MiredsOf(temp_kelvin) == 1000000 \div temp_kelvin

\* the command of the brightness branch
BrightnessCommand(node_id, endpoint_id, hundredths) ==
    IF ClampBrightness(hundredths) = 0
    THEN [node_id |-> node_id, endpoint_id |-> endpoint_id,
          cmd |-> "Off", arg |-> 0]
    ELSE [node_id |-> node_id, endpoint_id |-> endpoint_id,
          cmd |-> "MoveToLevelWithOnOff",
          arg |-> LevelOf(ClampBrightness(hundredths))]

TemperatureCommand(node_id, endpoint_id, temp_kelvin) ==
    [node_id |-> node_id, endpoint_id |-> endpoint_id,
     cmd |-> "MoveToColorTemperature", arg |-> MiredsOf(temp_kelvin)]

\* the decorator's answer while is_ready() is false
NotReadyResponse(op) ==
    [op |-> op, status |-> 503, body |-> "Server not ready for hardware control"]

\* the body of serve_set_api after the id is parsed: the commands it sends
\* in order, up to and with the one that raises, and its status
SetOutcome(node_id, endpoint_id, brightness, temperature, fail_at) ==
    LET sends_b == brightness.k = "num"
        cmd_b == << Effect("send_device_command",
                           BrightnessCommand(node_id, endpoint_id, brightness.n)) >>
        after_b == IF sends_b THEN cmd_b ELSE << >>
        sends_t == temperature.k = "num" /\ temperature.n > 0
        cmd_t == << Effect("send_device_command",
                           TemperatureCommand(node_id, endpoint_id, temperature.n)) >>
        nth_t == IF sends_b THEN 2 ELSE 1
    IN  IF brightness.k = "bad" THEN [status |-> 500, effects |-> << >>]
        ELSE IF sends_b /\ SendRaises(1, fail_at)
        THEN [status |-> 500, effects |-> cmd_b]
        ELSE IF temperature.k = "bad" THEN [status |-> 500, effects |-> after_b]
        ELSE IF sends_t /\ SendRaises(nth_t, fail_at)
        THEN [status |-> 500, effects |-> after_b \o cmd_t]
        ELSE [status |-> 200,
              effects |-> after_b \o (IF sends_t THEN cmd_t ELSE << >>)]

\* GET or POST /api/set; an absent id is the empty string
ServeSet(device_id, brightness, temperature, fail_at) ==
    /\ phase = "serving"
    /\ LoopIdle
    /\ UNCHANGED << phase, attempt, handles, stores, environment, frames >>
    /\ IF ~IsReady
       THEN /\ response' = NotReadyResponse("set")
            /\ effects' = << >>
       ELSE IF device_id = << >>
       THEN /\ response' = [op |-> "set", status |-> 400, body |-> "Missing device id"]
            /\ effects' = << >>
       ELSE LET resolved_id == ResolveId(device_names, device_id)
                parts == Split(RemoveAll(resolved_id, DevPrefix), "_")
            IN  IF Len(parts) < 2 \/ ~IsDigits(parts[1]) \/ ~IsDigits(parts[2])
                THEN /\ response' = [op |-> "set", status |-> 400,
                                     body |-> "Invalid ID format"]
                     /\ effects' = << >>
                ELSE LET out == SetOutcome(IntOf(parts[1]), IntOf(parts[2]),
                                           brightness, temperature, fail_at)
                     IN  /\ response' = [op |-> "set", status |-> out.status,
                                         body |-> resolved_id]
                         /\ effects' = out.effects
                                        \o (IF out.status = 500
                                            THEN << Effect("log_error", "command") >>
                                            ELSE << >>)

\* extract_matter_pin: the PIN of a manual pairing code, or "invalid"
ExtractMatterPin(setup_code) ==
    LET clean_code == RemoveAll(RemoveAll(setup_code, << "-" >>), << " " >>)
    IN  IF Len(clean_code) \notin {11, 21} \/ ~IsDigits(clean_code)
        THEN [ok |-> FALSE, pin |-> 0]
        ELSE [ok |-> TRUE,
              pin |-> IntOf(SubSeq(clean_code, 7, 10)) * 16384
                      + (IntOf(SubSeq(clean_code, 2, 6)) % 16384)]

\* GET /api/register; an absent code or ip is the empty string
ServeCommission(setup_code, ip_address, fail_at) ==
    /\ phase = "serving"
    /\ LoopIdle
    /\ UNCHANGED << phase, attempt, handles, stores, environment, frames >>
    /\ IF ~IsReady
       THEN /\ response' = NotReadyResponse("commission")
            /\ effects' = << >>
       ELSE IF setup_code = << >>
       THEN /\ response' = [op |-> "commission", status |-> 400,
                            body |-> "Missing setup code"]
            /\ effects' = << >>
       ELSE IF ip_address # "" /\ ~ExtractMatterPin(setup_code).ok
       THEN /\ response' = [op |-> "commission", status |-> 500,
                            body |-> "Invalid manual pairing code format"]
            /\ effects' = << >>
       ELSE /\ effects' =
                 << IF ip_address # ""
                    THEN Effect("send_command",
                                [cmd |-> "commission_on_network",
                                 arg |-> ExtractMatterPin(setup_code).pin])
                    ELSE Effect("send_command",
                                [cmd |-> "commission_with_code", arg |-> 0]) >>
            /\ response' = [op |-> "commission",
                            status |-> IF SendRaises(1, fail_at) THEN 500 ELSE 200,
                            body |-> setup_code]

-----------------------------------------------------------------------------
(* shutdown *)

\* process.terminate() and process.wait() on a process that runs;
\* terminate() raises ProcessLookupError on one that has exited already
ProcessTeardown(pr) ==
    IF pr = "running"
    THEN << Effect("terminate", "process"), Effect("wait", "process") >>
    ELSE IF pr = "exited"
    THEN << Effect("terminate", "process"), Effect("raise", "ProcessLookupError") >>
    ELSE << >>

\* a teardown that leaves the listen task alone
TeardownKeepsListening(lt, se, pr) ==
    [listen_task |-> lt,
     session |-> IF se # "none" THEN "closed" ELSE "none",
     process |-> IF pr # "none" THEN "exited" ELSE "none",
     effects |-> (IF se # "none"
                  THEN << Effect("close", "session") >> ELSE << >>)
                 \o ProcessTeardown(pr)]

\* shutdown on the handles lt, se, pr: what it leaves of them and what it
\* does, in order
Teardown(lt, se, pr) ==
    [listen_task |-> IF lt # "none" THEN "cancelled" ELSE "none",
     session |-> IF se # "none" THEN "closed" ELSE "none",
     process |-> IF pr # "none" THEN "exited" ELSE "none",
     effects |-> (IF lt # "none"
                  THEN << Effect("cancel", "listen_task") >> ELSE << >>)
                 \o (IF se # "none"
                     THEN << Effect("close", "session") >> ELSE << >>)
                 \o ProcessTeardown(pr)]

\* the cleanup handler, run once the application stops serving
Shutdown ==
    /\ phase = "serving"
    /\ LoopIdle
    /\ phase' = "stopped"
    /\ LET t == Teardown(listen_task, session, process)
       IN  /\ listen_task' = t.listen_task
           /\ session' = t.session
           /\ process' = t.process
           /\ effects' = t.effects
    /\ response' = NoResponse
    /\ UNCHANGED << attempt, client, subscribed, stores, environment, frames >>

-----------------------------------------------------------------------------
(* The bridge and its commands: start-up, set, commission, shutdown *)

\* identifiers a caller sends to /api/set: none, a device id, a name that
\* is no alias, a malformed id
SetIds ==
    {<< >>, DeviceId(1, 1), DeviceId(2, 1), << "k" >>, DevPrefix \o << "x" >>}

BrightnessParams ==
    {AbsentParam, BadParam, Num(0), Num(1), Num(40), Num(50), Num(100), Num(150)}

TemperatureParams == {AbsentParam, BadParam, Num(0), Num(2700), Num(5000)}

\* manual pairing codes: none, two well-formed ones, one too short
SetupCodes ==
    {<< >>,
     << "3", "4", "9", "7", "0", "1", "1", "2", "3", "3", "2" >>,
     << "3", "4", "9", "7", "-", "0", "1", "1", "-", "2", "3", "3", "2" >>,
     << "1", "2", "3" >>}

NextLife ==
    \/ Startup
    \/ \E d \in SetIds, b \in BrightnessParams, t \in TemperatureParams,
          fail_at \in 0..2 : ServeSet(d, b, t, fail_at)
    \/ \E code \in SetupCodes, ip \in {"", "192.168.1.20"}, fail_at \in 0..1 :
          ServeCommission(code, ip, fail_at)
    \/ Shutdown

SpecLife == Init /\ [][NextLife]_vars

-----------------------------------------------------------------------------
(* The read handlers *)

\* a text value of a JSON body
TextV(x) == [t |-> "text", v |-> x]

\* datetime.fromtimestamp(ts).strftime('%Y-%m-%d %H:%M:%S'): the text of
\* the second ts
FormatTime(ts) == TextV(<< "T" >> \o Str(ts))

\* serve_all_devices_api: dict(device) with its names
DeviceWithNames(device, names) ==
    [id |-> device.id, node_id |-> device.node_id,
     endpoint_id |-> device.endpoint_id, states |-> device.states,
     names |-> NamesOf(names, device.id)]

AllDevicesView(cached, names) ==
    IF cached # << >>
    THEN [i \in 1..Len(cached) |-> DeviceWithNames(cached[i], names)]
    ELSE << >>

\* a mapping that cuts the third decimal off
MappedBrightnessCut(raw) == Max(0, Min(100, (raw * 100) \div 254))

\* round(max(0.0, min(1.0, raw / 254.0)), 2), in hundredths
MappedBrightness(raw) == Max(0, Min(100, (raw * 200 + 254) \div 508))

\* the truth value of a stored state
Truthy(x) == x.t # "none" /\ x.v # 0

\* one entry of serve_lighting_api
LightingEntry(device, names) ==
    LET states == device.states
        state == Get(states, "on_off", None)
        raw == Get(states, "brightness_raw", None)
        mireds == Get(states, "color_temp_mireds", None)
    IN  [id |-> device.id,
         names |-> NamesOf(names, device.id),
         state |-> state,
         brightness |-> IF raw.t = "none" THEN None
                        ELSE IF ~Truthy(state) THEN IntV(0)
                        ELSE IntV(MappedBrightness(raw.v)),
         temperature |-> IF mireds.t # "none" /\ mireds.v > 0
                         THEN IntV(1000000 \div mireds.v) ELSE None]

LightingView(cached, names) ==
    LET IsLight(device) == \/ "on_off" \in DOMAIN device.states
                           \/ "brightness_raw" \in DOMAIN device.states
        lights == SelectSeq(cached, IsLight)
    IN  [i \in 1..Len(lights) |-> LightingEntry(lights[i], names)]

\* sensor_keys of serve_sensors_api and serve_single_sensor_api
SensorKeys ==
    {"illuminance", "temperature", "pressure", "humidity", "occupancy", "contact"}

\* sensor_payload: the sensor keys of the states, then for an occupancy
\* sensor the time of the last rising edge and the registered script
SensorPayload(device_id, states, history, callbacks) ==
    LET base == [k \in SensorKeys \cap DOMAIN states |-> states[k]]
        last == IF "occupancy" \in DOMAIN base /\ device_id \in DOMAIN history
                   /\ history[device_id] # 0
                THEN Put(base, "occupancy_last_active",
                         FormatTime(history[device_id]))
                ELSE base
    IN  IF "occupancy" \in DOMAIN base /\ device_id \in DOMAIN callbacks
        THEN Put(last, "occupancy_callback", TextV(callbacks[device_id]))
        ELSE last

SensorsView(cached, names, history, callbacks) ==
    LET IsSensor(device) == SensorKeys \cap DOMAIN device.states # {}
        sensors == SelectSeq(cached, IsSensor)
    IN  [i \in 1..Len(sensors) |->
            [id |-> sensors[i].id,
             names |-> NamesOf(names, sensors[i].id),
             payload |-> SensorPayload(sensors[i].id, sensors[i].states,
                                       history, callbacks)]]

\* a handler that answers and drops the snapshot
AnswerAndForget(op, status, body) ==
    /\ response' = [op |-> op, status |-> status, body |-> body]
    /\ effects' = << >>
    /\ cached_devices' = << >>
    /\ UNCHANGED << phase, attempt, handles, occupancy_history, device_names,
                    occupancy_callbacks, files, environment, frames >>

\* a handler that only reads answers and changes nothing
Answer(op, status, body) ==
    /\ response' = [op |-> op, status |-> status, body |-> body]
    /\ effects' = << >>
    /\ UNCHANGED << phase, attempt, handles, stores, environment, frames >>

\* GET /api/devices
ServeAllDevices ==
    /\ phase = "serving"
    /\ LoopIdle
    /\ Answer("devices", 200, AllDevicesView(cached_devices, device_names))

\* GET /api/lights
ServeLighting ==
    /\ phase = "serving"
    /\ LoopIdle
    /\ Answer("lights", 200, LightingView(cached_devices, device_names))

\* GET /api/sensors
ServeSensors ==
    /\ phase = "serving"
    /\ LoopIdle
    /\ Answer("sensors", 200,
              SensorsView(cached_devices, device_names, occupancy_history,
                          occupancy_callbacks))

\* GET /api/sensor?id=..; an absent id is the empty string
ServeSingleSensor(device_id) ==
    /\ phase = "serving"
    /\ LoopIdle
    /\ IF device_id = << >>
       THEN Answer("sensor", 400, "Missing sensor id parameter")
       ELSE LET resolved_id == ResolveId(device_names, device_id)
                hits == {i \in 1..Len(cached_devices) :
                            cached_devices[i].id = resolved_id}
            IN  IF hits = {}
                THEN Answer("sensor", 404, "Sensor not found in cache")
                ELSE LET device ==
                             cached_devices[CHOOSE i \in hits :
                                               \A j \in hits : i <= j]
                     IN  IF SensorKeys \cap DOMAIN device.states = {}
                         THEN Answer("sensor", 404,
                                     "Device exists but contains no sensor clusters")
                         ELSE Answer("sensor", 200,
                                     [id |-> resolved_id,
                                      names |-> NamesOf(device_names, resolved_id),
                                      payload |->
                                          SensorPayload(resolved_id, device.states,
                                                        occupancy_history,
                                                        occupancy_callbacks)])

-----------------------------------------------------------------------------
(* _on_event and _update_cache, statement by statement *)

\* _on_event is called and enters _update_cache
EventBegin ==
    /\ Listening
    /\ LoopIdle
    /\ Len(frames) < MaxFrames
    /\ frames' = << RebuildStart(client, mesh, cached_devices,
                                 occupancy_history, files) >> \o frames
    /\ Quiet
    /\ UNCHANGED << phase, attempt, handles, stores, environment >>

\* the running activation executes its next statement on the stores of the
\* bridge, and returns after the last one
RebuildAdvance(wfail) ==
    /\ frames # << >>
    /\ response' = NoResponse
    /\ UNCHANGED << phase, attempt, handles, device_names,
                    occupancy_callbacks, environment >>
    /\ LET top == [Head(frames) EXCEPT !.cached_devices = cached_devices,
                                       !.occupancy_history = occupancy_history,
                                       !.files = files]
           r == RebuildStep(top, occupancy_callbacks, scripts, now, wfail)
       IN  /\ cached_devices' = r.cached_devices
           /\ occupancy_history' = r.occupancy_history
           /\ files' = r.files
           /\ effects' = r.effects
           /\ frames' = IF r.pc = "done" THEN Tail(frames)
                        ELSE << r >> \o Tail(frames)

-----------------------------------------------------------------------------
(* The bridge on its event loop: start-up, lights and occupancy sensors,
   events whose rebuild runs statement by statement, read requests *)

LoopEndpoints ==
    { OccEndpoint(IntV(0)), LightEndpoint(BoolV(TRUE), IntV(127), IntV(200)) }

LoopMesh ==
    \/ \E k \in DevKeys, ep \in LoopEndpoints : NodeAdded(k, ep)
    \/ \E k \in DevKeys : NodeRemoved(k)
    \/ \E k \in DevKeys, v \in {IntV(0), IntV(1)} :
          AttributeChanged(k, << 1030, 0 >>, v)

Reads ==
    \/ ServeAllDevices
    \/ ServeLighting
    \/ ServeSensors
    \/ \E d \in DeviceIds \cup {<< >>} : ServeSingleSensor(d)

NextLoop ==
    \/ Startup
    \/ LoopMesh
    \/ EventBegin
    \/ RebuildAdvance({})
    \/ Reads

SpecLoop == Init /\ [][NextLoop]_vars

-----------------------------------------------------------------------------
(* The bridge with one colour light: start-up, the light with every
   combination of its three attributes, events, the lighting view *)

\* readings of the on/off attribute
LightOnOff == {None, BoolV(FALSE), BoolV(TRUE)}

\* readings of the current level: no value, off, lowest, half, highest
LightLevels == {None, IntV(0), IntV(1), IntV(127), IntV(254)}

\* readings of the colour temperature in mireds: no value, zero, a cool
\* white, a daylight white
LightMireds == {None, IntV(0), IntV(153), IntV(200)}

LightMesh ==
    \/ \E raw_on \in LightOnOff, level \in LightLevels, mireds \in LightMireds :
          NodeAdded(<< 1, 1 >>, LightEndpoint(raw_on, level, mireds))
    \/ NodeRemoved(<< 1, 1 >>)
    \/ \E raw_on \in LightOnOff : AttributeChanged(<< 1, 1 >>, << 6, 0 >>, raw_on)

NextLight ==
    \/ Startup
    \/ LightMesh
    \/ OnEvent({})
    \/ ServeLighting

SpecLight == Init /\ [][NextLight]_vars

-----------------------------------------------------------------------------
(* serve_name_api *)

\* a conflict test that looks at the first entry of the registry only
NameConflictFirstOnly(names, new_name, resolved_id) ==
    /\ Len(names) > 0
    /\ InList(new_name, names[1].names)
    /\ names[1].id # resolved_id

\* a conflict test that never finds a conflict
NameConflictNever(names, new_name, resolved_id) == FALSE

\* for existing_id, names in device_names.items():
\*     if new_name in names and existing_id != resolved_id
NameConflict(names, new_name, resolved_id) ==
    \E i \in 1..Len(names) :
        InList(new_name, names[i].names) /\ names[i].id # resolved_id

\* if resolved_id not in device_names: device_names[resolved_id] = []
EnsureEntry(names, resolved_id) ==
    IF NamesIndex(names, resolved_id) = {}
    THEN Append(names, [id |-> resolved_id, names |-> << >>])
    ELSE names

\* device_names[resolved_id].append(new_name)
AppendName(names, resolved_id, new_name) ==
    [i \in 1..Len(names) |->
        IF names[i].id = resolved_id
        THEN [names[i] EXCEPT !.names = Append(@, new_name)]
        ELSE names[i]]

\* GET or POST /api/name; an absent parameter is the empty string
ServeName(device_id, new_name, wfail) ==
    /\ phase = "serving"
    /\ LoopIdle
    /\ UNCHANGED << phase, attempt, handles, cached_devices, occupancy_history,
                    occupancy_callbacks, environment, frames >>
    /\ IF device_id = << >> \/ new_name = << >>
       THEN /\ response' = [op |-> "name", status |-> 400,
                            body |-> "Missing id or name parameter"]
            /\ effects' = << >>
            /\ UNCHANGED << device_names, files >>
       ELSE LET resolved_id == ResolveId(device_names, device_id)
                entered == EnsureEntry(device_names, resolved_id)
                is_new == ~InList(new_name, NamesOf(entered, resolved_id))
                names == IF is_new
                         THEN AppendName(entered, resolved_id, new_name)
                         ELSE entered
            IN  IF NameConflict(device_names, new_name, resolved_id)
                THEN /\ response' =
                          [op |-> "name", status |-> 409,
                           body |-> "Name conflict: Alias already assigned to another device"]
                     /\ effects' = << >>
                     /\ UNCHANGED << device_names, files >>
                ELSE /\ device_names' = names
                     /\ files' = IF is_new
                                 THEN WriteFile(files, "names", names, wfail)
                                 ELSE files
                     /\ effects' = IF is_new
                                   THEN << WriteEffect("names", wfail) >>
                                   ELSE << >>
                     /\ response' = [op |-> "name", status |-> 200,
                                     body |-> [id |-> resolved_id,
                                               names |-> NamesOf(names, resolved_id)]]

-----------------------------------------------------------------------------
(* The bridge and its alias registry: start-up, name assignment *)

\* names a caller assigns: two plain ones and one that begins with the
\* prefix of the device ids
AliasNames == {<< "k" >>, << "b" >>, DevPrefix \o << "9" >>}

\* identifiers a caller gives: device ids, and names, which are aliases
\* once assigned and unregistered strings before
AliasIds == DeviceIds \cup AliasNames

NextAlias ==
    \/ Startup
    \/ \E d \in AliasIds \cup {<< >>}, n \in AliasNames \cup {<< >>} :
          ServeName(d, n, {})

SpecAlias == Init /\ [][NextAlias]_vars

-----------------------------------------------------------------------------
(* Restart: the process ends and a new one is constructed *)

\* loaders that never read the file
LoadIgnoresFile(fls, name, empty) == empty

\* _load_device_cache and the other loaders: the document of the file, or
\* the value the constructor assigned before when there is no file or
\* json.load raises
Load(fls, name, empty) ==
    IF fls[name].exists /\ fls[name].valid THEN fls[name].doc ELSE empty

\* the loaders log a file that json.load rejects
LoadErrors(fls) ==
    LET Rejected(name) == fls[name].exists /\ ~fls[name].valid
        Logged(name) == IF Rejected(name)
                        THEN << Effect("load_error", name) >> ELSE << >>
    IN  Logged("devices") \o Logged("occupancy") \o Logged("names")
        \o Logged("callbacks")

\* the process is stopped or killed and started again: __init__ runs on the
\* files the old process left
Restart ==
    /\ phase # "constructed"
    /\ LoopIdle
    /\ phase' = "constructed"
    /\ attempt' = 0
    /\ process' = "none"
    /\ session' = "none"
    /\ client' = "none"
    /\ listen_task' = "none"
    /\ subscribed' = FALSE
    /\ cached_devices' = Load(files, "devices", << >>)
    /\ occupancy_history' = Load(files, "occupancy", EmptyMap)
    /\ device_names' = Load(files, "names", << >>)
    /\ occupancy_callbacks' = Load(files, "callbacks", EmptyMap)
    /\ effects' = LoadErrors(files)
    /\ response' = NoResponse
    /\ UNCHANGED << files, environment, frames >>

-----------------------------------------------------------------------------
(* The bridge and its files: start-up, one occupancy sensor, one script,
   events, registrations, writes that fail, restarts *)

\* the ways the writes of a rebuild fail
RebuildFailures ==
    {{}, {"devices"}, {"occupancy"}, {"devices", "occupancy"},
     {Torn("devices")}, {Torn("occupancy")}}

\* the ways the write of a registry fails
SaveFailures(name) == {{}, {name}, {Torn(name)}}

StartupPersist ==
    \/ StartProcess
    \/ BeginConnect
    \/ ConnectFail
    \/ \E wfail \in RebuildFailures : ConnectOk(wfail)
    \/ ConnectGiveUp

OneSensorMesh ==
    \/ NodeAdded(<< 1, 1 >>, OccEndpoint(IntV(0)))
    \/ NodeRemoved(<< 1, 1 >>)
    \/ \E v \in {IntV(0), IntV(1)} : AttributeChanged(<< 1, 1 >>, << 1030, 0 >>, v)

NextPersist ==
    \/ StartupPersist
    \/ OneSensorMesh
    \/ ScriptCreated("a.sh")
    \/ \E wfail \in RebuildFailures : OnEvent(wfail)
    \/ \E wfail \in SaveFailures("callbacks") :
          ServeCallback(DeviceId(1, 1), "a.sh", wfail)
    \/ \E wfail \in SaveFailures("names") :
          ServeName(DeviceId(1, 1), << "k" >>, wfail)
    \/ Restart

SpecPersist == Init /\ [][NextPersist]_vars

-----------------------------------------------------------------------------
(* The bridge with all its operations: start-up, one occupancy sensor, one
   script, events, reads, commands, name and callback registration *)

\* identifiers a caller gives in this specification: the device id and a
\* name, an alias once it is assigned
FrameIds == {DeviceId(1, 1), << "k" >>}

Commands ==
    \/ \E d \in FrameIds, b \in {AbsentParam, Num(40)}, fail_at \in 0..1 :
          ServeSet(d, b, AbsentParam, fail_at)
    \/ \E code \in SetupCodes \ {<< >>} : ServeCommission(code, "", 0)

Registrations ==
    \/ ServeName(DeviceId(1, 1), << "k" >>, {})
    \/ \E d \in FrameIds : ServeCallback(d, "a.sh", {})

NextFrame ==
    \/ Startup
    \/ OneSensorMesh
    \/ ScriptCreated("a.sh")
    \/ OnEvent({})
    \/ Reads
    \/ Commands
    \/ Registrations

SpecFrame == Init /\ [][NextFrame]_vars

-----------------------------------------------------------------------------
(* The bridge from start to stop: start-up, one occupancy sensor, events,
   shutdown *)

\* the mesh controller process ends by itself
ProcessExits ==
    /\ process = "running"
    /\ process' = "exited"
    /\ Quiet
    /\ UNCHANGED << phase, attempt, session, client, listen_task, subscribed,
                    stores, environment, frames >>

NextStop ==
    \/ Startup
    \/ OneSensorMesh
    \/ Tick
    \/ ProcessExits
    \/ OnEvent({})
    \/ Shutdown

SpecStop == Init /\ [][NextStop]_vars

-----------------------------------------------------------------------------
(* _update_cache called before there is a mesh client *)

\* A call of _update_cache on a bridge whose client is None.  initialize
\* and _on_event call it only once the client exists; this is the call the
\* test "if not self.client" is written for.
CallUpdateCache ==
    /\ client = "none"
    /\ LoopIdle
    /\ response' = [op |-> "update_cache", status |-> 0, body |-> "returned"]
    /\ UNCHANGED << phase, attempt, handles, device_names,
                    occupancy_callbacks, environment, frames >>
    /\ LET r == UpdateCache(client, {})
       IN  /\ cached_devices' = r.cached_devices
           /\ occupancy_history' = r.occupancy_history
           /\ files' = r.files
           /\ effects' = r.effects

NextCall ==
    \/ Startup
    \/ OneSensorMesh
    \/ ScriptCreated("a.sh")
    \/ ServeCallback(DeviceId(1, 1), "a.sh", {})
    \/ OnEvent({})
    \/ Restart
    \/ CallUpdateCache

SpecCall == Init /\ [][NextCall]_vars

-----------------------------------------------------------------------------
(* Observations used by the properties *)

Absent == 0 - 1

\* the occupancy value a snapshot holds for device d, Absent when the device
\* or the key is missing
OccOf(snapshot, d) ==
    LET hits == {i \in 1..Len(snapshot) :
                    snapshot[i].id = d /\ "occupancy" \in DOMAIN snapshot[i].states}
    IN  IF hits = {} THEN Absent
        ELSE snapshot[CHOOSE i \in hits : TRUE].states["occupancy"].v

\* the handler wrote occupancy_history[d]
Stamped(eff, d) == \E i \in 1..Len(eff) : eff[i].e = "stamp" /\ eff[i].a = d

\* the handler spawned a callback script
Spawns(eff) == {i \in 1..Len(eff) : eff[i].e = "spawn"}

\* a step that runs _update_cache with a mesh client
Rebuilds == OnEvent({}) \/ ConnectOk({})

\* what a rebuild of mesh m commits
SnapshotOf(m) ==
    RunRebuild(RebuildStart("connected", m, << >>, EmptyMap,
                            [n \in FileNames |-> NoFile]),
               EmptyMap, {}, 0, {}).cached_devices

RECURSIVE StampsOver(_, _, _)
\* the number of timestamps recorded for device (1, 1) by one rebuild per
\* reading, from reading i on, starting from the snapshot cached
StampsOver(readings, cached, i) ==
    IF i > Len(readings) THEN 0
    ELSE LET m == (<< 1, 1 >> :> OccEndpoint(IntV(readings[i])))
             r == RunRebuild(RebuildStart("connected", m, cached, EmptyMap,
                                          [n \in FileNames |-> NoFile]),
                             EmptyMap, {}, i, {})
         IN  (IF Stamped(r.effects, DeviceId(1, 1)) THEN 1 ELSE 0)
             + StampsOver(readings, r.cached_devices, i + 1)

-----------------------------------------------------------------------------
(* Properties *)

\* C1: in every rebuild a device's timestamp is recorded (with the current
\* time) exactly when its new occupancy value is 1 and its value in the
\* previous snapshot was 0 or absent; otherwise its history entry is left as
\* it was, so a value that stays 1 is not stamped again.  The readings
\* 0,1,1,0,1 of one device give two recordings.
C1_EdgeStamps ==
    /\ StampsOver(<< 0, 1, 1, 0, 1 >>, << >>, 1) = 2
    /\ [][Rebuilds =>
            \A d \in DeviceIds :
              /\ Stamped(effects', d) <=>
                    /\ OccOf(cached_devices', d) = 1
                    /\ OccOf(cached_devices, d) \in {0, Absent}
              /\ Stamped(effects', d) =>
                    /\ d \in DOMAIN occupancy_history'
                    /\ occupancy_history'[d] = now
              /\ ~Stamped(effects', d) =>
                    /\ (d \in DOMAIN occupancy_history') = (d \in DOMAIN occupancy_history)
                    /\ d \in DOMAIN occupancy_history =>
                          occupancy_history'[d] = occupancy_history[d]
         ]_vars

\* C1 witness: a rebuild at a later time stamped one device that became
\* occupied, while the other device, occupied since before, kept its older
\* timestamp
C1_Witness ==
    \E d \in DeviceIds, o \in DeviceIds :
       /\ d # o
       /\ Stamped(effects, d) /\ ~Stamped(effects, o)
       /\ OccOf(cached_devices, d) = 1 /\ OccOf(cached_devices, o) = 1
       /\ d \in DOMAIN occupancy_history /\ o \in DOMAIN occupancy_history
       /\ occupancy_history[d] = now
       /\ occupancy_history[o] < now

C3_NotOneRises ==
    [][Rebuilds =>
         \A d \in DeviceIds :
            (OccOf(cached_devices', d) = 1 /\ OccOf(cached_devices, d) # 1)
               => Stamped(effects', d)
      ]_vars

\* the number of entries of the handler's log with kind e and argument a
CountEffects(eff, e, a) ==
    Cardinality({i \in 1..Len(eff) : eff[i].e = e /\ eff[i].a = a})

\* the devices that had a rising edge in the step and have a callback
\* registered to script path
Triggering(eff, callbacks, path) ==
    {d \in DeviceIds :
        Stamped(eff, d) /\ d \in DOMAIN callbacks /\ callbacks[d] = path}

\* entry j of the log is the write of store name, done or failed and logged
WriteMade(eff, j, name) ==
    eff[j].e \in {"write", "log_error"} /\ eff[j].a = name

\* every spawn comes after the snapshot was replaced and written and, when
\* an edge was recorded, after the history was written
SpawnsComeLast(eff) ==
    \A i \in Spawns(eff) :
       /\ \E j \in 1..(i - 1) : eff[j].e = "commit"
       /\ \E j \in 1..(i - 1) : WriteMade(eff, j, "devices")
       /\ (\E d \in DeviceIds : Stamped(eff, d)) =>
             \E j \in 1..(i - 1) : WriteMade(eff, j, "occupancy")

ClusterOfKey(key) ==
    CASE key = "on_off" -> 6
      [] key = "brightness_raw" -> 8
      [] key = "color_temp_mireds" -> 768
      [] key = "illuminance" -> 1024
      [] key = "temperature" -> 1026
      [] key = "pressure" -> 1027
      [] key = "humidity" -> 1029
      [] key = "occupancy" -> 1030
      [] key = "contact" -> 69

LightingKeys == {"on_off", "brightness_raw", "color_temp_mireds"}

\* the attribute a key of states is read from
AttrOfKey(key) == << ClusterOfKey(key), IF key = "color_temp_mireds" THEN 7 ELSE 0 >>

EntryKey(entry) == << entry.node_id, entry.endpoint_id >>

\* C5: after every rebuild the snapshot holds exactly one entry for each
\* (node_id, endpoint_id) pair of the mesh, under that pair's device id, and
\* no other entry, and a key of an entry's states belongs to a cluster the
\* endpoint has.
C5_OneEntryPerEndpoint ==
    [][Rebuilds =>
         /\ Len(cached_devices') = Cardinality(DOMAIN mesh)
         /\ \A k \in DOMAIN mesh :
               \E i \in 1..Len(cached_devices') :
                  /\ EntryKey(cached_devices'[i]) = k
                  /\ cached_devices'[i].id = DeviceId(k[1], k[2])
         /\ \A i \in 1..Len(cached_devices') :
               /\ EntryKey(cached_devices'[i]) \in DOMAIN mesh
               /\ \A key \in DOMAIN cached_devices'[i].states :
                     ClusterOfKey(key)
                        \in mesh[EntryKey(cached_devices'[i])].clusters
      ]_vars

\* C5 witness: a rebuild replaced a snapshot that held a device which has
\* left the mesh by one with two entries, an endpoint without clusters and
\* one with state keys
C5_Witness ==
    /\ phase = "serving"
    /\ Len(effects) >= 2 /\ effects[Len(effects)].e = "write"
    /\ Len(cached_devices) = 2
    /\ DOMAIN mesh = MixedKeys
    /\ \E i, j \in 1..2 :
          /\ cached_devices[i].states = EmptyMap
          /\ "on_off" \in DOMAIN cached_devices[j].states
    /\ files["occupancy"].exists

Sends(eff) ==
    {i \in 1..Len(eff) : eff[i].e \in {"send_command", "send_device_command"}}

\* C7 (as claimed): whenever set or commission runs while the mesh
\* connection is not established, it answers 503 and calls no send method
\* of the mesh client.
C7_NotConnectedIsUnavailable ==
    (response.op \in {"set", "commission"} /\ client # "connected")
       => (response.status = 503 /\ Sends(effects) = {})

ReadOps == {"devices", "lights", "sensors", "sensor"}

\* C8: under any interleaving of events and read requests, at most one
\* rebuild is active at a time, an event's rebuild starts and a read is
\* answered only while no rebuild is active, a rebuild replaces the
\* snapshot once, by the complete snapshot of the mesh it read, and the
\* devices a reader is given are those of the committed snapshot.
C8_ReadersSeeCommitted ==
    [][ /\ Len(frames') <= 1
        /\ Len(frames') > Len(frames) => frames = << >>
        /\ response'.op \in ReadOps =>
              /\ frames = << >> /\ frames' = << >>
              /\ cached_devices' = cached_devices
              /\ response'.op = "devices" =>
                    [i \in 1..Len(response'.body) |->
                        [id |-> response'.body[i].id,
                         node_id |-> response'.body[i].node_id,
                         endpoint_id |-> response'.body[i].endpoint_id,
                         states |-> response'.body[i].states]] = cached_devices
        /\ (phase = "serving" /\ cached_devices' # cached_devices) =>
              /\ frames # << >>
              /\ Head(frames).pc = "commit"
              /\ cached_devices' = SnapshotOf(mesh)
      ]_vars

\* a reader was given the sensors of a committed snapshot of two devices
\* while the mesh has already changed and no rebuild is active
C8_Witness ==
    /\ response.op = "sensors"
    /\ Len(response.body) = 2
    /\ frames = << >>
    /\ SnapshotOf(mesh) # cached_devices
    /\ files["devices"].exists /\ files["devices"].doc = cached_devices

\* C9: from an empty registry, after any sequence of assignments no name
\* is in the lists of two entries of the registry, no list holds a name
\* twice, and no device identifier has two entries.
C9_NamesUnique ==
    /\ \A i, j \in 1..Len(device_names) :
          i # j =>
             /\ device_names[i].id # device_names[j].id
             /\ \A a \in 1..Len(device_names[i].names) :
                   ~InList(device_names[i].names[a], device_names[j].names)
    /\ \A i \in 1..Len(device_names) :
          \A a, b \in 1..Len(device_names[i].names) :
             a # b => device_names[i].names[a] # device_names[i].names[b]

\* three names are assigned, to a device id and to an identifier that is no
\* device id, and the last assignment was refused
C9_Witness ==
    /\ Len(device_names) = 2
    /\ \E i \in 1..2 : Len(device_names[i].names) = 2
    /\ \E i \in 1..2 : device_names[i].id \notin DeviceIds
    /\ \E i \in 1..2 : device_names[i].id \in DeviceIds
    /\ response.op = "name" /\ response.status = 409

\* the entries of the registry, other than that of resolved_id, whose list
\* holds the name
OwnersOtherThan(names, name, resolved_id) ==
    {names[i].id : i \in {x \in 1..Len(names) :
                             InList(name, names[x].names)
                             /\ names[x].id # resolved_id}}

TriggeredPaths(eff, snapshot, callbacks) ==
    LET Queued(device) == Stamped(eff, device.id) /\ device.id \in DOMAIN callbacks
        queued == SelectSeq(snapshot, Queued)
    IN  [i \in 1..Len(queued) |-> callbacks[queued[i].id]]

\* the entries of the handler's log made by the dispatch loop
DispatchLog(eff) ==
    LET IsDispatch(x) == x.e = "spawn" \/ (x.e = "log_error" /\ x.a \in ScriptPaths)
    IN  SelectSeq(eff, IsDispatch)

\* C11: a rebuild whose queued callbacks include a missing script still
\* commits the snapshot of the mesh, records the time of every rising edge
\* and writes both stores; its dispatch loop handles every queued callback
\* in order, logging an error for a missing script and spawning each script
\* that exists, those queued after a missing one included.
C11_MissingScriptOnlyLogged ==
    [][Rebuilds =>
         LET queued == TriggeredPaths(effects', cached_devices', occupancy_callbacks)
             log == DispatchLog(effects')
         IN  /\ cached_devices' = SnapshotOf(mesh)
             /\ files'["devices"].doc = cached_devices'
             /\ \A d \in DeviceIds :
                   Stamped(effects', d) =>
                      /\ occupancy_history'[d] = now
                      /\ files'["occupancy"].doc = occupancy_history'
             /\ Len(log) = Len(queued)
             /\ \A i \in 1..Len(queued) :
                   /\ log[i].a = queued[i]
                   /\ log[i].e = IF queued[i] \in scripts THEN "spawn"
                                 ELSE "log_error"
      ]_vars

\* a rebuild found the script of the first device missing and spawned the
\* script of the second
C11_Witness ==
    /\ Len(DispatchLog(effects)) = 2
    /\ DispatchLog(effects)[1].e = "log_error"
    /\ DispatchLog(effects)[2].e = "spawn"
    /\ cached_devices = SnapshotOf(mesh)
    /\ \A d \in DeviceIds : Stamped(effects, d) /\ occupancy_history[d] = now

\* the handler's log holds an entry of kind e for a
Logged(eff, e, a) == \E i \in 1..Len(eff) : eff[i].e = e /\ eff[i].a = a

\* C12: a write that fails changes neither what the operation leaves in
\* memory nor its result.  A rebuild, whichever of its writes fail, commits
\* the snapshot of the mesh, records every rising edge, attempts the write
\* of the history when there was an edge and handles the callback of every
\* edge device; each failed write is logged.  A registration of a callback
\* or of a name whose write fails answers 200 and leaves the new entry in
\* the registry.
C12_FailedWriteKeepsMemory ==
    [][ /\ \A wfail \in RebuildFailures :
             (OnEvent(wfail) \/ ConnectOk(wfail)) =>
                /\ cached_devices' = SnapshotOf(mesh)
                /\ Logged(effects', IF Fails("devices", wfail) THEN "log_error"
                                    ELSE "write", "devices")
                /\ \A d \in DeviceIds :
                      (OccOf(cached_devices', d) = 1
                         /\ OccOf(cached_devices, d) \in {0, Absent}) =>
                         /\ d \in DOMAIN occupancy_history'
                         /\ occupancy_history'[d] = now
                         /\ Logged(effects', IF Fails("occupancy", wfail)
                                             THEN "log_error" ELSE "write",
                                   "occupancy")
                         /\ d \in DOMAIN occupancy_callbacks =>
                               Len(DispatchLog(effects')) = 1
        /\ \A wfail \in SaveFailures("callbacks") :
             (ServeCallback(DeviceId(1, 1), "a.sh", wfail) /\ "a.sh" \in scripts) =>
                /\ response'.status = 200
                /\ DeviceId(1, 1) \in DOMAIN occupancy_callbacks'
                /\ occupancy_callbacks'[DeviceId(1, 1)] = "a.sh"
                /\ effects' = << IF Fails("callbacks", wfail)
                                 THEN Effect("log_error", "callbacks")
                                 ELSE Effect("write", "callbacks") >>
        /\ \A wfail \in SaveFailures("names") :
             ServeName(DeviceId(1, 1), << "k" >>, wfail) =>
                /\ response'.status = 200
                /\ response'.body.names = << << "k" >> >>
                /\ NamesOf(device_names', DeviceId(1, 1)) = << << "k" >> >>
                /\ NamesOf(device_names, DeviceId(1, 1)) = << >> =>
                      effects' = << IF Fails("names", wfail)
                                    THEN Effect("log_error", "names")
                                    ELSE Effect("write", "names") >>
      ]_vars

\* a rebuild both of whose writes failed recorded a rising edge and
\* spawned the script of the device; the files hold neither the snapshot
\* nor the timestamp
C12_Witness ==
    /\ Logged(effects, "log_error", "devices")
    /\ Logged(effects, "log_error", "occupancy")
    /\ Logged(effects, "spawn", "a.sh")
    /\ OccOf(cached_devices, DeviceId(1, 1)) = 1
    /\ DeviceId(1, 1) \in DOMAIN occupancy_history
    /\ ~files["devices"].exists
    /\ ~files["occupancy"].exists

\* the entries a rebuild leaves in the handler's log
RebuildEffects(eff) ==
    {i \in 1..Len(eff) : eff[i].e \in {"commit", "stamp", "spawn"}
                         \/ (eff[i].e \in {"write", "log_error"}
                             /\ eff[i].a \in {"devices", "occupancy"})}

\* C13: a read (devices, lights, sensors, single sensor) and a command
\* (set, commission) change no store and no file and run no rebuild; a
\* rebuild changes neither registry nor its file; a name assignment
\* changes the alias registry and its file only; a callback registration
\* changes the callback registry and its file only; neither runs a rebuild.
C13_StoresHaveOneWriter ==
    [][ /\ response'.op \in ReadOps \cup {"set", "commission"} =>
              /\ UNCHANGED << cached_devices, occupancy_history, device_names,
                              occupancy_callbacks, files, frames >>
              /\ RebuildEffects(effects') = {}
        /\ Rebuilds =>
              /\ UNCHANGED << device_names, occupancy_callbacks >>
              /\ files'["names"] = files["names"]
              /\ files'["callbacks"] = files["callbacks"]
        /\ response'.op = "name" =>
              /\ UNCHANGED << cached_devices, occupancy_history,
                              occupancy_callbacks, frames >>
              /\ \A n \in FileNames \ {"names"} : files'[n] = files[n]
              /\ RebuildEffects(effects') = {}
        /\ response'.op = "callback" =>
              /\ UNCHANGED << cached_devices, occupancy_history, device_names,
                              frames >>
              /\ \A n \in FileNames \ {"callbacks"} : files'[n] = files[n]
              /\ RebuildEffects(effects') = {}
      ]_vars

\* a command was sent while every store holds an entry
C13_Witness ==
    /\ response.op = "set" /\ response.status = 200
    /\ Sends(effects) # {}
    /\ cached_devices # << >>
    /\ DOMAIN occupancy_history # {}
    /\ device_names # << >>
    /\ DOMAIN occupancy_callbacks # {}

\* the position of the entry of kind e in a log, 0 when there is none
PositionOf(eff, e) ==
    IF \E i \in 1..Len(eff) : eff[i].e = e
    THEN CHOOSE i \in 1..Len(eff) : eff[i].e = e
    ELSE 0

\* the log of a teardown of the handles lt, se, pr: the listen task, when
\* there is one, is cancelled first, then the session, when there is one,
\* is closed, then the process, when it runs, is terminated and waited
\* for (terminate raises when it has exited already), and nothing else is
\* done
OrderedTeardown(eff, lt, se, pr) ==
    LET steps == (IF lt # "none" THEN << "cancel" >> ELSE << >>)
                 \o (IF se # "none" THEN << "close" >> ELSE << >>)
                 \o (IF pr = "running" THEN << "terminate", "wait" >>
                     ELSE IF pr = "exited" THEN << "terminate", "raise" >>
                     ELSE << >>)
    IN  /\ Len(eff) = Len(steps)
        /\ \A i \in 1..Len(steps) : PositionOf(eff, steps[i]) = i

\* C14: shutdown, on whatever handles exist (all of them when connected,
\* session and process when the connection failed, the process alone),
\* cancels the listen task, then closes the session, then terminates the
\* process and waits for it, and leaves no task listening, no session open
\* and no process running; after it the snapshot, the history and the
\* files never change again.
C14_OrderedTeardown ==
    /\ \A lt \in {"none", "running"}, se \in {"none", "open"},
          pr \in {"none", "running", "exited"} :
          LET t == Teardown(lt, se, pr)
          IN  /\ OrderedTeardown(t.effects, lt, se, pr)
              /\ t.listen_task # "running"
              /\ t.session # "open"
              /\ t.process # "running"
    /\ [][ /\ (phase # "stopped" /\ phase' = "stopped") =>
                 /\ OrderedTeardown(effects', listen_task, session, process)
                 /\ listen_task' # "running"
                 /\ session' # "open"
                 /\ process' # "running"
           /\ phase = "stopped" =>
                 /\ UNCHANGED << cached_devices, occupancy_history, files,
                                 phase >>
                 /\ RebuildEffects(effects') = {}
                 /\ listen_task' # "running"
                 /\ process' # "running"
         ]_vars

\* the bridge was connected and is stopped, and the mesh has changed since
\* the last rebuild
C14_Witness ==
    /\ phase = "stopped"
    /\ listen_task = "cancelled" /\ session = "closed" /\ process = "exited"
    /\ cached_devices # << >>
    /\ SnapshotOf(mesh) # cached_devices

\* C15: _update_cache called while the client is None returns without an
\* error and without an entry in its log: the snapshot, the occupancy
\* history and the files are as before (empty on a first call), nothing is
\* written and no callback is handled.
C15_NoClientNoRebuild ==
    [][ (response'.op = "update_cache" /\ client = "none") =>
           /\ UNCHANGED << cached_devices, occupancy_history, files >>
           /\ effects' = << >>
           /\ response'.body = "returned"
      ]_vars

\* _update_cache returned on a bridge without a client that had loaded a
\* snapshot with an occupied sensor, its timestamp and its callback, while
\* the mesh holds the sensor clear
C15_Witness ==
    /\ response.op = "update_cache"
    /\ client = "none"
    /\ OccOf(cached_devices, DeviceId(1, 1)) = 1
    /\ DeviceId(1, 1) \in DOMAIN occupancy_history
    /\ DeviceId(1, 1) \in DOMAIN occupancy_callbacks
    /\ << 1, 1 >> \in DOMAIN mesh
    /\ SnapshotOf(mesh) # cached_devices

\* the /api/callback request with these parameters was answered
CallbackAnswered(d, path) == ServeCallback(d, path, {})

\* C16: the callback registry holds one script per identifier.  A
\* registration that names a script that is not an existing file is answered
\* 400 and leaves registry and callbacks file unchanged; a registration with
\* an existing script is answered 200 and sets the entry of the identifier to
\* that script, replacing the one it had and leaving the other entries; no
\* other step changes the registry; and a rebuild spawns, for a device with
\* a rising edge, the script its entry holds and no other.
C16_OneCallbackPerDevice ==
    [][ /\ \A d \in DeviceIds, path \in ScriptPaths :
             CallbackAnswered(d, path) =>
                IF path \in scripts
                THEN /\ response'.status = 200
                     /\ DOMAIN occupancy_callbacks'
                           = DOMAIN occupancy_callbacks \cup {d}
                     /\ occupancy_callbacks'[d] = path
                     /\ \A x \in DOMAIN occupancy_callbacks \ {d} :
                           occupancy_callbacks'[x] = occupancy_callbacks[x]
                     /\ files'["callbacks"].doc = occupancy_callbacks'
                ELSE /\ response'.status = 400
                     /\ UNCHANGED << occupancy_callbacks, files >>
        /\ response'.op # "callback" => UNCHANGED occupancy_callbacks
        /\ Rebuilds =>
             \A d \in DeviceIds :
                Cardinality({x \in DeviceIds : Stamped(effects', x)}) = 1
                /\ Stamped(effects', d) /\ d \in DOMAIN occupancy_callbacks =>
                   \A i \in Spawns(effects') :
                      effects'[i].a = occupancy_callbacks[d]
      ]_vars

\* a rebuild in which one device had a rising edge spawned b.sh, the script
\* of its entry, while a.sh exists and is the script of the other device
C16_Witness ==
    /\ Cardinality(Spawns(effects)) = 1
    /\ \E d \in DeviceIds :
          /\ \A x \in DeviceIds : Stamped(effects, x) <=> x = d
          /\ d \in DOMAIN occupancy_callbacks
          /\ occupancy_callbacks[d] = "b.sh"
          /\ \E x \in DOMAIN occupancy_callbacks : occupancy_callbacks[x] = "a.sh"
    /\ \A i \in Spawns(effects) : effects[i].a = "b.sh"
    /\ {"a.sh", "b.sh"} \subseteq scripts


\* the handler ran a rebuild that replaced the snapshot
RebuildRan(eff) == \E i \in 1..Len(eff) : eff[i].e = "commit"

\* a rebuild ran and none of its writes failed
WritesSucceed(eff) ==
    /\ RebuildRan(eff)
    /\ \A i \in 1..Len(eff) :
          eff[i].e = "log_error" => eff[i].a \notin {"devices", "occupancy"}

\* the file of store name holds value; a store never written has no file
InFile(fls, name, value, empty) ==
    IF fls[name].exists THEN fls[name].valid /\ fls[name].doc = value
    ELSE value = empty

\* a restart of a bridge whose two files hold its two stores reloads both
\* as they were in memory
ReloadsIdentical ==
    ( /\ Restart
      /\ InFile(files, "occupancy", occupancy_history, EmptyMap)
      /\ InFile(files, "devices", cached_devices, << >>) )
       => UNCHANGED << cached_devices, occupancy_history >>

\* the rebuild of initialize records no edge for a device the loaded
\* snapshot holds occupied, and keeps its timestamp
NoEdgeWhenLoadedOccupied ==
    \A wfail \in RebuildFailures :
       ConnectOk(wfail) =>
          \A d \in DeviceIds :
             OccOf(cached_devices, d) = 1 =>
                /\ ~Stamped(effects', d)
                /\ d \in DOMAIN occupancy_history =>
                      /\ d \in DOMAIN occupancy_history'
                      /\ occupancy_history'[d] = occupancy_history[d]

\* between the constructor and the rebuild of initialize no step changes
\* the stores loaded
StartupKeepsLoaded ==
    (phase # "serving" /\ phase' \notin {"serving", "constructed"}) =>
       UNCHANGED << cached_devices, occupancy_history >>

\* C17 (as claimed): at the end of every rebuild whose writes succeed the
\* occupancy file holds the in-memory history and the devices file the
\* in-memory snapshot; a restart of a bridge whose files hold its stores
\* reloads both as they were, and the first rebuild after it records no
\* edge for a device already occupied.
C17_PersistedEqualsMemory ==
    [][ /\ WritesSucceed(effects') =>
             /\ InFile(files', "occupancy", occupancy_history', EmptyMap)
             /\ InFile(files', "devices", cached_devices', << >>)
        /\ ReloadsIdentical
        /\ StartupKeepsLoaded
        /\ NoEdgeWhenLoadedOccupied
      ]_vars

\* C17 (amended): at the end of every rebuild whose writes succeed the
\* devices file holds the in-memory snapshot, and the occupancy file holds
\* the in-memory history when that rebuild recorded an edge (a rebuild
\* without an edge does not write the history, so a history whose last
\* write failed stays unwritten); a restart of a bridge whose two files
\* hold its two stores reloads both as they were; and the first rebuild
\* after a restart records no edge for a device the loaded snapshot holds
\* occupied and keeps its loaded timestamp.
C17_HistorySurvivesRestart ==
    [][ /\ WritesSucceed(effects') =>
             /\ InFile(files', "devices", cached_devices', << >>)
             /\ (\E d \in DeviceIds : Stamped(effects', d)) =>
                   InFile(files', "occupancy", occupancy_history', EmptyMap)
        /\ ReloadsIdentical
        /\ StartupKeepsLoaded
        /\ NoEdgeWhenLoadedOccupied
      ]_vars

\* a bridge constructed over the files of an earlier run: the snapshot
\* loaded holds the sensor occupied, the history loaded holds its
\* timestamp, and both equal their files
C17_Witness ==
    /\ phase = "constructed"
    /\ OccOf(cached_devices, DeviceId(1, 1)) = 1
    /\ DeviceId(1, 1) \in DOMAIN occupancy_history
    /\ InFile(files, "occupancy", occupancy_history, EmptyMap)
    /\ InFile(files, "devices", cached_devices, << >>)

\* round(n / d) for n >= 0 and d > 0: the nearest integer, the even one of
\* two that are equally near
RoundDiv(n, d) ==
    LET q == n \div d
        r == n % d
    IN  IF 2 * r < d THEN q
        ELSE IF 2 * r > d THEN q + 1
        ELSE IF q % 2 = 0 THEN q ELSE q + 1

\* the commands named cmd that a handler gave to send_device_command
DeviceCommands(eff, cmd) ==
    {i \in 1..Len(eff) : eff[i].e = "send_device_command" /\ eff[i].a.cmd = cmd}

\* C18 (as claimed): a set request with a brightness b for a well-formed
\* device id issues, when b clamped to [0, 1] is 0, one Off command and no
\* level command, and otherwise one level command with level
\* max(1, round(b * 254)) and no Off command; b is given in hundredths.
C18_LevelIsRounded ==
    [][ \A d \in SetIds, b \in BrightnessParams, t \in TemperatureParams,
           fail_at \in 0..2 :
           ( /\ b.k = "num"
             /\ IsReady
             /\ ServeSet(d, b, t, fail_at)
             /\ response'.status \in {200, 500} ) =>
              LET off == DeviceCommands(effects', "Off")
                  level == DeviceCommands(effects', "MoveToLevelWithOnOff")
              IN  IF ClampBrightness(b.n) = 0
                  THEN Cardinality(off) = 1 /\ level = {}
                  ELSE /\ off = {}
                       /\ Cardinality(level) = 1
                       /\ \A i \in level :
                             effects'[i].a.arg
                                = Max(1, RoundDiv(ClampBrightness(b.n) * 254, 100))
      ]_vars

\* the state key of the cached device that entry of a view is about
CachedState(cached, entry, key) ==
    LET hits == {i \in 1..Len(cached) : cached[i].id = entry.id}
    IN  Get(cached[CHOOSE i \in hits : TRUE].states, key, None)

\* C19 (as claimed): every entry of the lighting view reports, for a device
\* whose colour temperature is m > 0 mireds, round(1000000 / m) Kelvin, and
\* no temperature for a device whose mireds are absent, null or not
\* positive.
C19_KelvinIsRounded ==
    [][ response'.op = "lights" =>
           \A i \in 1..Len(response'.body) :
              LET entry == response'.body[i]
                  mireds == CachedState(cached_devices, entry, "color_temp_mireds")
              IN  entry.temperature
                     = IF mireds.t # "none" /\ mireds.v > 0
                       THEN IntV(RoundDiv(1000000, mireds.v))
                       ELSE None
      ]_vars

\* C20: the mapping of a raw level in 0..254 is round(level / 254, 2), a
\* value in [0, 1], 0.5 for 127 (in hundredths); and every entry of the
\* lighting view of a device with a raw level reports exactly 0 when its
\* state is false and that mapping when its state is true.
C20_BrightnessFollowsState ==
    /\ \A raw \in 0..254 :
          /\ MappedBrightness(raw) = RoundDiv(raw * 100, 254)
          /\ MappedBrightness(raw) \in 0..100
    /\ MappedBrightness(127) = 50
    /\ [][ response'.op = "lights" =>
              \A i \in 1..Len(response'.body) :
                 LET entry == response'.body[i]
                     raw == CachedState(cached_devices, entry, "brightness_raw")
                     state == CachedState(cached_devices, entry, "on_off")
                 IN  (raw.t = "int" /\ state.t = "bool") =>
                        /\ entry.state = state
                        /\ entry.brightness
                              = IF state.v = 0 THEN IntV(0)
                                ELSE IntV(RoundDiv(raw.v * 100, 254))
         ]_vars

\* the lighting view reports 0.5 for a light that is on at raw level 127
C20_Witness ==
    /\ response.op = "lights"
    /\ Len(response.body) = 1
    /\ response.body[1].state = BoolV(TRUE)
    /\ response.body[1].brightness = IntV(50)
    /\ CachedState(cached_devices, response.body[1], "brightness_raw") = IntV(127)

\* C21 (as claimed): every name in the alias list of a device id,
\* names that begin with "dev_" included, resolves to that device id.
C21_AliasResolvesToOwner ==
    \A i \in 1..Len(device_names) :
       device_names[i].id \in DeviceIds =>
          \A j \in 1..Len(device_names[i].names) :
             ResolveId(device_names, device_names[i].names[j])
                = device_names[i].id

\* every device the committed snapshot holds occupied has a timestamp
OccupiedHaveEntry ==
    \A d \in DeviceIds :
       OccOf(cached_devices, d) = 1 => d \in DOMAIN occupancy_history

\* C22: from empty stores and with occupancy readings of 0 and 1 only,
\* whatever devices come and go, every device the committed snapshot holds
\* with occupancy 1 has an entry in the occupancy history, and no step
\* removes an entry of the history.
C22_OccupiedAreStamped ==
    /\ []OccupiedHaveEntry
    /\ [][\A d \in DOMAIN occupancy_history : d \in DOMAIN occupancy_history'
         ]_vars

\* after rebuilds one sensor is gone from the snapshot and keeps its
\* timestamp, the other is held occupied with a later timestamp
C22_Witness ==
    /\ RebuildRan(effects)
    /\ OccOf(cached_devices, DeviceId(1, 1)) = Absent
    /\ OccOf(cached_devices, DeviceId(2, 1)) = 1
    /\ DeviceIds \subseteq DOMAIN occupancy_history
    /\ occupancy_history[DeviceId(1, 1)] < occupancy_history[DeviceId(2, 1)]

=============================================================================
